---- MODULE Spec2Model ----
(***************************************************************************)
(* Terrain clamping of a 3D tileset (src/lib/terrainClamp.js).             *)
(*                                                                         *)
(* applyTerrainClamping is an async function: it runs synchronously from   *)
(* one await to the next, and several invocations on one tileset may be    *)
(* suspended at the same time.  Every action below is one such             *)
(* non-preemptible run of one invocation, or one step of the environment   *)
(* (tileset load, render frame, Cesium events).                            *)
(*                                                                         *)
(* Heights are integers in units of 1/NumCorners metre, so that the        *)
(* average over the 4 corners (terrainClamp.js:350) is exact.  A placement *)
(* transform is represented by its translation along the local vertical    *)
(* axis, the only component the clamp ever composes into it.               *)
(*                                                                         *)
(* The file-based share service (src/misc/url-shortener.js) is a separate  *)
(* server process with its own variables and its own specification.        *)
(***************************************************************************)
EXTENDS Integers, Sequences, FiniteSets, TLC

\* ---------------------------------------------------------------- bounds
MaxCalls == 2          \* applyTerrainClamping invocations in one behaviour
MaxInFlight == 2       \* invocations suspended at the same time
MaxSelectedTiles == 3  \* tiles in tileset._selectedTiles
MaxSaves == 2          \* POST requests to the share router in one behaviour

\* ------------------------------------------------------- program constants
NumCorners == 4        \* corners of the footprint, divisor of the average
MinSamplePoints == 3   \* sample points needed to build a box from points

Metres(x) == x * NumCorners

\* ------------------------------------------------------------ JS values
\* An optional value: <<>> is undefined, <<v>> is the defined value v.
Undefined == <<>>
Def(v) == <<v>>
IsDefined(o) == o # Undefined
Val(o) == o[1]

\* Matrix4, reduced to the translation along the local vertical axis.
IDENTITY == Def(0)
fromTranslation(d) == Def(d)
\* Variant: the right operand replaces the left one.
multiplyReplace(left, right) == right

multiply(left, right) == Def(Val(left) + Val(right))

Last(s) == s[Len(s)]

RECURSIVE SumSeq(_)
SumSeq(s) == IF s = <<>> THEN 0 ELSE Head(s) + SumSeq(Tail(s))

\* ------------------------------------------------------- input geometry
\* Two sites.  rootBox / pointsBox: authored geodetic heights of the four
\* lower corners of the root tile's oriented box and of the box fitted to
\* the selected tiles' positions; center: authored height of the centre of
\* tileset.boundingSphere and radius: its radius; terrain / terrainCenter: terrain height under
\* each corner and under the sphere centre; heightOffset: the clearance
\* above terrain that every caller on the site asks for.
Sites ==
  { [ rootBox       |-> <<Metres(100), Metres(100), Metres(100), Metres(100)>>,
      pointsBox     |-> <<Metres(104), Metres(104), Metres(104), Metres(104)>>,
      center        |-> Metres(200),
      radius        |-> Metres(150),
      terrain       |-> <<Metres(80), Metres(80), Metres(80), Metres(80)>>,
      terrainCenter |-> Metres(80),
      heightOffset  |-> Metres(10) ],
    [ rootBox       |-> <<Metres(100), Metres(102), Metres(101), Metres(103)>>,
      pointsBox     |-> <<Metres(110), Metres(112), Metres(111), Metres(113)>>,
      center        |-> Metres(150),
      radius        |-> Metres(40),
      terrain       |-> <<Metres(50), Metres(60), Metres(70), Metres(81)>>,
      terrainCenter |-> Metres(65),
      heightOffset  |-> Metres(0) ] }

\* What scene.globe.getHeight does at each sample position (the 4 corners,
\* then the sphere centre): it returns the height, returns undefined (the
\* terrain tile is not resident) or throws.
CenterPos == NumCorners + 1
AllResident == [k \in 1 .. CenterPos |-> "height"]
TerrainStates ==
  { AllResident,
    [AllResident EXCEPT ![3] = "undefined"],
    [AllResident EXCEPT ![2] = "throws"],
    [k \in 1 .. CenterPos |-> "undefined"] }

\* The scene passed to the clamp: whether scene.globe.getHeight and
\* scene.clampToHeight are there.  A Cesium Scene has both.
Scenes == [getHeight : BOOLEAN, clampToHeight : BOOLEAN]
CesiumScene == [getHeight |-> TRUE, clampToHeight |-> TRUE]

VARIABLES
  tileset,   \* the Cesium3DTileset object
  site,      \* the geometry and terrain of the site (fixed by Init)
  terrain,   \* terrain[k]: what a height query at position k does now
  scene,     \* the query capabilities the scene object offers
  listeners, \* TRUE once _setupHeightUpdates has registered its listeners
  calls,     \* calls[i]: the i-th invocation of applyTerrainClamping
  writes,    \* log of the writes to the placement transform
  console,   \* TRUE if window.console exists
  files,     \* share server: content of data/<id>.json, or NoFile
  index,     \* share server: the ids that index.json has an entry for
  saves,     \* share server: saves[k] is the k-th POST request
  lastGet,   \* share server: the latest GET request and its response
  item,      \* catalog item: its tileset, flags, callbacks and clamp attempts
  cesiumScene,  \* catalog item: TRUE while terria.cesium.scene exists
  readyPromise, \* catalog item: readyPromise[t], the promise of tileset t
  cookie,    \* browser: the access_token cookie, if any
  now,       \* browser: the clock, in seconds
  wasAuthenticated,  \* browser: the periodic check's previous answer
  catalog,   \* browser: catalog[p], how often private item p was added
  loads,     \* browser: loads[r], the r-th run of loadPrivateCatalogWithAuth
  lastAuth,  \* browser: the latest isUserAuthenticated call and its answer
  lastRequest, \* browser: the latest request that left the interceptors
  urls,      \* URL shortener: the Map from id to entry
  dbFile,    \* URL shortener: the content of urls.json
  requests,  \* URL shortener: requests[k], the k-th call of the store
  returned   \* URL shortener: returned[id], resolveUrl calls that returned
             \* the URL of the entry now stored under id

clampVars ==
  <<tileset, site, terrain, scene, listeners, calls, writes, console>>
shareVars == <<files, index, saves, lastGet>>
itemVars == <<item, cesiumScene, readyPromise>>
authVars ==
  <<cookie, now, wasAuthenticated, catalog, loads, lastAuth, lastRequest>>
shortVars == <<urls, dbFile, requests, returned>>
restOfClamp == <<shareVars, itemVars, authVars, shortVars>>
restOfShare == <<clampVars, itemVars, authVars, shortVars>>
restOfItem == <<clampVars, shareVars, authVars, shortVars>>
restOfAuth == <<clampVars, shareVars, itemVars, shortVars>>
restOfShort == <<clampVars, shareVars, itemVars, authVars>>
vars == <<clampVars, shareVars, itemVars, authVars, shortVars>>

\* No catalog item of type 3d-tiles-clamped exists.
NoItem ==
  /\ item = <<>> /\ cesiumScene = FALSE /\ readyPromise = <<>>

\* No browser session is modelled.
NoSession ==
  /\ cookie = <<>> /\ now = 0 /\ wasAuthenticated = <<>> /\ catalog = <<>>
  /\ loads = <<>> /\ lastAuth = <<>> /\ lastRequest = <<>>

\* No URL shortener process is modelled.
NoShortener ==
  /\ urls = <<>> /\ dbFile = <<>> /\ requests = <<>> /\ returned = <<>>

Inv == 1 .. MaxCalls

\* --------------------------------------------------- terrainClamp.js helpers
\* An exception that leaves a function (used by variants only).
Thrown == <<0, 0>>

\* Variant: no try/catch around the queries.
getTerrainHeightAtPositionNoCatch(sc, outcome, height) ==
  IF sc.getHeight \/ sc.clampToHeight
    THEN CASE outcome = "height" -> Def(height)
           [] outcome = "undefined" -> Undefined
           [] OTHER -> Thrown
    ELSE Undefined

\* getTerrainHeightAtPosition: with globe.getHeight, what it returns (a
\* height or undefined); else with clampToHeight, the height of the clamped
\* position, and undefined when there is none; undefined without either
\* capability and when the query throws (caught, line 316).
getTerrainHeightAtPosition(sc, outcome, height) ==
  IF sc.getHeight
    THEN IF outcome = "height" THEN Def(height) ELSE Undefined
  ELSE IF sc.clampToHeight
    THEN IF outcome = "height" THEN Def(height) ELSE Undefined
  ELSE Undefined

\* The query strategies getTerrainHeightAtPosition attempts, in order: it
\* returns what globe.getHeight gives when that function is there (line
\* 292), and reaches clampToHeight only otherwise (line 296).
strategiesTried(sc) ==
  IF sc.getHeight THEN <<"getHeight">>
  ELSE IF sc.clampToHeight THEN <<"clampToHeight">>
  ELSE <<>>

\* Variant: debugWarn prints nothing.
debugWarnSilent(c, msg) == c

\* debugWarn / debugError: console.warn, console.error, if there is a
\* console.
debugWarn(c, msg) ==
  IF console
    THEN [c EXCEPT !.diags = Append(@, [level |-> "warn", msg |-> msg])]
    ELSE c
debugError(c, msg) ==
  IF console
    THEN [c EXCEPT !.diags = Append(@, [level |-> "error", msg |-> msg])]
    ELSE c

\* What getTerrainHeightAtPosition logs: an error when the query throws
\* (line 317), a warning when it gets to line 312.
queryLogged(c, sc, outcome) ==
  IF (sc.getHeight \/ sc.clampToHeight) /\ outcome = "throws"
    THEN debugError(c, "getTerrainHeightAtPosition")
  ELSE IF ~ sc.getHeight /\ (~ sc.clampToHeight \/ outcome = "undefined")
    THEN debugWarn(c, "Could not determine terrain height")
  ELSE c

\* A query at position k is issued by invocation c.
Query(c, k, height) ==
  [queryLogged(c, scene, terrain[k]) EXCEPT
     !.pending = getTerrainHeightAtPosition(scene, terrain[k], height),
     !.strategies = strategiesTried(scene)]

\* Variant: undefined heights are skipped and the rest averaged.
calculateBestFitPlaneSkipUndefined(corners, heights) ==
  LET present == { k \in 1 .. Len(heights) : heights[k] # Undefined }
      diffs == [k \in 1 .. Len(heights) |->
                  IF k \in present THEN Val(heights[k]) - corners[k] ELSE 0]
  IN IF present = {}
       THEN [success |-> FALSE, averageHeightDifference |-> 0]
       ELSE [success |-> TRUE,
             averageHeightDifference |-> SumSeq(diffs) \div Cardinality(present)]

\* calculateBestFitPlane: fails unless there are 4 corners and 4 defined
\* heights; otherwise the mean of heights[i] - corner height[i].
calculateBestFitPlane(corners, heights) ==
  IF Len(corners) # NumCorners \/ Len(heights) # NumCorners
    THEN [success |-> FALSE, averageHeightDifference |-> 0]
  ELSE IF \E k \in 1 .. Len(heights) : heights[k] = Undefined
    THEN [success |-> FALSE, averageHeightDifference |-> 0]
  ELSE LET totalHeightDiff ==
             SumSeq([k \in 1 .. NumCorners |-> Val(heights[k]) - corners[k]])
       IN [success |-> TRUE,
           averageHeightDifference |-> totalHeightDiff \div NumCorners]

\* Variant: the caller's heightOffset is left out.
calculateAdjustmentTransformNoOffset(bestFitResult, h) ==
  multiply(IDENTITY, fromTranslation(bestFitResult.averageHeightDifference))

\* calculateAdjustmentTransform: identity x translation(0, 0, average
\* difference + heightOffset).
calculateAdjustmentTransform(bestFitResult, h) ==
  LET heightAdjustment == bestFitResult.averageHeightDifference + h
  IN multiply(IDENTITY, fromTranslation(heightAdjustment))

\* Variant: the translation is composed onto a pristine transform.
currentModelMatrixPristine(ts) == IDENTITY

\* const currentModelMatrix = tileset.modelMatrix || Matrix4.IDENTITY
currentModelMatrix(ts) ==
  IF IsDefined(ts.modelMatrix) THEN ts.modelMatrix ELSE IDENTITY

\* The field of the tileset the clamp assigns the new transform to.
writtenField(ts) == "modelMatrix"

\* Vertical translation of the placement in force: modelMatrix x
\* root.transform, each taken as identity when absent.
translationOf(m) == IF IsDefined(m) THEN Val(m) ELSE 0
effectiveZ(ts) == translationOf(ts.modelMatrix) + translationOf(ts.rootTransform)

\* ------------------------------------------------------------- invocations
NewCall ==
  [ pc |-> "idle", corners |-> <<>>, cornerSigns |-> <<>>,
    strategies |-> <<>>, diags |-> <<>>,
    terrainHeights |-> <<>>, pending |-> Undefined, centerHeight |-> 0,
    centerSample |-> Undefined, tiers |-> <<>>, result |-> "none",
    applied |-> Undefined, before |-> <<>>, readZ |-> 0, baseZ |-> 0 ]

InFlight(c) == c.pc \notin {"idle", "done"}
NumInFlight == Cardinality({ j \in Inv : InFlight(calls[j]) })

\* The invocation ends: its locals go out of scope.
Return(c) ==
  [c EXCEPT !.pc = "done", !.pending = Undefined, !.centerHeight = 0,
            !.before = <<>>, !.strategies = <<>>,
            !.corners = IF c.pc = "corner" THEN @ ELSE <<>>,
            !.cornerSigns = IF c.pc = "corner" THEN @ ELSE <<>>,
            !.terrainHeights = IF c.pc = "corner" THEN @ ELSE <<>>]

\* The promise of the invocation rejects.
Reject(c) == [Return(c) EXCEPT !.result = "rejected"]

\* applyFallbackClamping up to its await: reads tileset.boundingSphere
\* (a TypeError when it is missing) and issues the query at the centre.
FallbackThrows == ~ tileset.boundingSphere

StartFallback(c) ==
  Query([c EXCEPT !.pc = "fallback",
                  !.tiers = Append(@, "fallback"),
                  !.centerHeight = site.center + tileset.computedZ,
                  !.readZ = tileset.computedZ],
        CenterPos, site.terrainCenter)

\* "return await applyFallbackClamping(...)" inside the try block: when the
\* fallback throws, the catch block (line 231) calls it a second time.
FallbackInTry(c) ==
  IF FallbackThrows
    THEN Reject([debugError(c, "Error during clamping") EXCEPT
                   !.tiers = @ \o <<"fallback", "fallback">>])
    ELSE StartFallback(c)

\* The catch block: it logs the error and calls the fallback, whose throw
\* rejects the invocation.
FallbackInCatch(c) ==
  LET logged == debugError(c, "Error during clamping")
  IN IF FallbackThrows
       THEN Reject([logged EXCEPT !.tiers = Append(@, "fallback")])
       ELSE StartFallback(logged)

\* Lines 96-160: the box whose corners are sampled.  "none" means that the
\* code gives up the oriented box and calls the fallback.
SelectBox(ts) ==
  LET samplePoints == ts.selectedTiles
  IN IF samplePoints >= MinSamplePoints THEN "pointsBox"
     ELSE IF ts.boundingVolume = "obb" THEN "rootBox"
     ELSE IF ts.boundingVolume = "sphere" THEN "pointsBox"
     ELSE "none"

\* OrientedBoundingBox.computeCorners: the 8 corners as the signs of the
\* half axes added to the centre, in Cesium's order (indices 0 to 7).
computeCorners ==
  << [x |-> -1, y |-> -1, z |-> -1], [x |-> -1, y |-> -1, z |-> 1],
     [x |-> -1, y |-> 1, z |-> -1],  [x |-> -1, y |-> 1, z |-> 1],
     [x |-> 1, y |-> -1, z |-> -1],  [x |-> 1, y |-> -1, z |-> 1],
     [x |-> 1, y |-> 1, z |-> -1],   [x |-> 1, y |-> 1, z |-> 1] >>

\* Lines 172-177: the indices picked for the footprint, and the corners
\* they pick, in list order.
bottomCornerIndices == <<0, 2, 4, 6>>
bottomCornerSigns ==
  [k \in 1 .. NumCorners |-> computeCorners[bottomCornerIndices[k] + 1]]

\* Variant: the corners of the box as authored, whatever the transform.
bottomCornersAuthored(box) == site[box]

\* Geodetic heights of the 4 bottom corners as the bounding data show them.
bottomCorners(box) ==
  [k \in 1 .. NumCorners |-> site[box][k] + tileset.computedZ]

\* Variant: a missing root is not caught.
EnterTryNoCatch(c) ==
  IF ~ tileset.root THEN Reject(c)
  ELSE IF tileset.boundingVolume # "obb"
    THEN FallbackInTry(debugWarn(c, "No oriented bounding box found"))
  ELSE Query([c EXCEPT !.pc = "corner",
                       !.tiers = Append(@, "precise"),
                       !.corners = bottomCorners(SelectBox(tileset)),
                       !.cornerSigns = bottomCornerSigns,
                       !.readZ = tileset.computedZ,
                       !.terrainHeights = <<>>],
             1, site.terrain[1])

\* The try block up to its first await.
EnterTry(c) ==
  IF ~ tileset.root THEN FallbackInCatch(c)
  ELSE IF tileset.boundingVolume # "obb"
    THEN FallbackInTry(debugWarn(c, "No oriented bounding box found"))
  ELSE IF SelectBox(tileset) = "none"
    THEN FallbackInTry(debugWarn(c, "No bounding volume found"))
  ELSE Query([c EXCEPT !.pc = "corner",
                       !.tiers = Append(@, "precise"),
                       !.corners = bottomCorners(SelectBox(tileset)),
                       !.cornerSigns = bottomCornerSigns,
                       !.readZ = tileset.computedZ,
                       !.terrainHeights = <<>>],
             1, site.terrain[1])

\* Lines 51-84: the wait for the initial load.
BeginCall ==
  LET c == [NewCall EXCEPT
              !.before = <<tileset.modelMatrix, tileset.rootTransform>>]
  IN IF tileset.loadState = "loaded" THEN EnterTry(c)
     ELSE IF tileset.readySignal \in {"promise", "event"}
       THEN [c EXCEPT !.pc = "wait"]
     ELSE Reject(c)

\* Variant: an undefined terrain height counts as 0.
fallbackHeightDifferenceDefaultZero(terrainHeight, centerHeight, h) ==
  Def((IF terrainHeight = Undefined THEN 0 ELSE Val(terrainHeight))
        - centerHeight + h)

\* applyFallbackClamping after its await (lines 254-260): the translation
\* to apply, or undefined when the function returns false.
fallbackHeightDifference(terrainHeight, centerHeight, h) ==
  IF terrainHeight = Undefined THEN Undefined
  ELSE Def(Val(terrainHeight) - centerHeight + h)

\* Variant: the statement after the write of the precise tier throws, and
\* the catch block goes on to the fallback.
returnTrueOrCatch(c) ==
  IF c.pc = "corner" THEN StartFallback(c)
  ELSE [Return(c) EXCEPT !.result = "true"]

\* What follows the write in both tiers: a debugLog and "return true".
returnTrue(c) == [Return(c) EXCEPT !.result = "true"]

\* The assignment of the new transform (lines 219-227 and 262-273).
WriteTransform(i, c, translationMatrix) ==
  LET newModelMatrix == multiply(currentModelMatrix(tileset), translationMatrix)
  IN /\ tileset' = [tileset EXCEPT ![writtenField(tileset)] = newModelMatrix]
     /\ writes' = Append(writes, [call |-> i, field |-> writtenField(tileset),
                                  offset |-> Val(translationMatrix)])
     /\ calls' = [calls EXCEPT ![i] =
                    [returnTrue(c) EXCEPT
                              !.applied = translationMatrix,
                              !.baseZ = effectiveZ(tileset)]]

\* ------------------------------------------------------------------ actions
\* A new invocation of applyTerrainClamping, run up to its first await.
Invoke(i) ==
  /\ calls[i].pc = "idle"
  /\ \A j \in 1 .. (i - 1) : calls[j].pc # "idle"
  /\ calls' = [calls EXCEPT ![i] = BeginCall]
  /\ UNCHANGED <<tileset, site, scene, console, restOfClamp, terrain, listeners,
               writes>>

\* The wait ends: the readiness promise settled or the event fired.
WaitResolved(i) ==
  /\ calls[i].pc = "wait"
  /\ \/ tileset.readySignal = "promise" /\ tileset.loadState # "pending"
     \/ tileset.readySignal = "event" /\ tileset.loadState = "loaded"
  /\ calls' = [calls EXCEPT ![i] =
       IF tileset.loadState = "failed"
         THEN EnterTry(debugError(@, "Tileset failed to load"))
         ELSE EnterTry(@)]
  /\ UNCHANGED <<tileset, site, scene, console, restOfClamp, terrain, listeners,
               writes>>

\* The 5 second timer fires while the tiles are still not loaded.
WaitTimeout(i) ==
  /\ calls[i].pc = "wait"
  /\ tileset.readySignal = "event"
  /\ tileset.loadState # "loaded"
  /\ calls' = [calls EXCEPT ![i] =
       EnterTry(debugWarn(@, "Timeout waiting for tiles"))]
  /\ UNCHANGED <<tileset, site, scene, console, restOfClamp, terrain, listeners,
               writes>>

\* Variant: the loop over the corners ends at the first undefined height.
MoreCornersUntilAbsent(heights, corners) ==
  Len(heights) < Len(corners) /\ Last(heights) # Undefined

\* The loop condition of line 186, i < bottomCorners.length.
MoreCorners(heights, corners) == Len(heights) < Len(corners)

\* A corner query returns: its result is pushed; then the next query is
\* issued, or the plane is fitted and the transform written or the
\* fallback started.
CornerResumed(i) ==
  LET c == calls[i]
      heights == Append(c.terrainHeights, c.pending)
      collected == [c EXCEPT !.terrainHeights = heights]
      bestFitResult == calculateBestFitPlane(c.corners, heights)
  IN /\ c.pc = "corner"
     /\ IF MoreCorners(heights, c.corners)
          THEN /\ calls' = [calls EXCEPT ![i] =
                   Query(collected, Len(heights) + 1,
                         site.terrain[Len(heights) + 1])]
               /\ UNCHANGED <<tileset, writes>>
        ELSE IF ~ bestFitResult.success
          THEN /\ calls' = [calls EXCEPT ![i] =
                   FallbackInTry(
                     debugWarn(debugError(collected, "calculateBestFitPlane"),
                               "Failed to calculate best fit"))]
               /\ UNCHANGED <<tileset, writes>>
        ELSE WriteTransform(i, collected,
               calculateAdjustmentTransform(bestFitResult, site.heightOffset))
     /\ UNCHANGED <<site, scene, console, restOfClamp, terrain, listeners>>

\* The query of applyFallbackClamping returns.
FallbackResumed(i) ==
  LET c == calls[i]
      terrainHeight == c.pending
      sampled == [c EXCEPT !.centerSample = terrainHeight]
      heightDifference ==
        fallbackHeightDifference(terrainHeight, c.centerHeight,
                                 site.heightOffset)
  IN /\ c.pc = "fallback"
     /\ IF heightDifference = Undefined
          THEN /\ calls' = [calls EXCEPT ![i] =
                   [Return(debugWarn(sampled, "Could not get terrain height"))
                      EXCEPT !.result = "false"]]
               /\ UNCHANGED <<tileset, writes>>
        ELSE WriteTransform(i, sampled, fromTranslation(Val(heightDifference)))
     /\ UNCHANGED <<site, scene, console, restOfClamp, terrain, listeners>>

\* ------------------------------------------------------------- environment
\* The tileset finishes or fails its initial load.
TilesetLoaded ==
  /\ tileset.loadState = "pending"
  /\ tileset' = [tileset EXCEPT !.loadState = "loaded"]
  /\ UNCHANGED <<site, scene, console, restOfClamp, terrain, listeners, calls,
               writes>>

TilesetLoadFailed ==
  /\ tileset.loadState = "pending"
  /\ tileset' = [tileset EXCEPT !.loadState = "failed"]
  /\ UNCHANGED <<site, scene, console, restOfClamp, terrain, listeners, calls,
               writes>>

\* A render frame: the bounding volumes are recomputed from the placement
\* transform in force.
UpdateTransform ==
  /\ tileset.computedZ # effectiveZ(tileset)
  /\ tileset' = [tileset EXCEPT !.computedZ = effectiveZ(tileset)]
  /\ UNCHANGED <<site, scene, console, restOfClamp, terrain, listeners, calls,
               writes>>

\* The terrain tiles under the site become resident.
TerrainTilesLoaded ==
  /\ terrain # AllResident
  /\ terrain' = AllResident
  /\ UNCHANGED <<tileset, site, scene, console, restOfClamp, listeners, calls, writes>>

\* _setupHeightUpdates registers the two listeners.
SetupHeightUpdates ==
  /\ ~ listeners
  /\ listeners' = TRUE
  /\ UNCHANGED <<tileset, site, scene, console, restOfClamp, terrain, calls, writes>>

\* The tileLoad listener: re-applies the clamping.
TileLoad(i) ==
  /\ listeners
  /\ NumInFlight < MaxInFlight
  /\ Invoke(i)

\* The terrainProviderChanged listener: re-applies the clamping.
TerrainProviderChanged(i) ==
  /\ listeners
  /\ NumInFlight < MaxInFlight
  /\ Invoke(i)

\* A caller that awaits each invocation before it starts the next one.
ClampAwaited(i) ==
  /\ NumInFlight = 0
  /\ Invoke(i)

\* ------------------------------------------------------------ share server
\* The file-based share data service (src/misc/url-shortener.js, lines
\* 1187-1438): an Express router over a ShareDataStore.  Every action is
\* the run of one request handler from one await to the next; the file
\* system operation awaited takes effect when the handler resumes.
ShareContents == {"c1", "c2", "c3"}
EmptyBody == ""
Bodies == ShareContents \cup {EmptyBody}

\* generateShortId: the first 8 hex digits of the SHA-256 of the content, as
\* a one-piece string.  Truncation maps many contents to one id: here c1
\* and c2.
generateShortId(content) ==
  CASE content = "c1" -> <<"a1">>
    [] content = "c2" -> <<"a1">>
    [] OTHER -> <<"b2">>

\* generateRandomId(4): what the random bytes may spell.
RandomIds == {"r1", "r2"}

\* id + generateRandomId(4): string concatenation.
appendRandom(id, r) == id \o <<r>>

ShareIds ==
  { generateShortId(c) : c \in ShareContents }
    \cup { appendRandom(generateShortId(c), r) : c \in ShareContents, r \in RandomIds }

\* `${prefix}-${id}` and fullId.replace(/^prefix-/, "").
prefix == "local"
fullIdOf(id) == <<prefix>> \o id
stripPrefix(fullId) ==
  IF fullId # <<>> /\ Head(fullId) = prefix THEN Tail(fullId) ELSE fullId

NoFile == "ENOENT"

\* ShareDataStore.exists: fs.access succeeds.
exists(id) == files[id] # NoFile

\* ShareDataStore.resolve behind GET /:id: the file's content, or 404.
resolve(id) ==
  IF id \in DOMAIN files /\ files[id] # NoFile
    THEN [status |-> 200, body |-> files[id]]
    ELSE [status |-> 404, body |-> ""]

Saves == 1 .. MaxSaves
NewSave ==
  [ pc |-> "idle", content |-> "", id |-> <<>>, indexContent |-> {},
    status |-> 0 ]
NoGet == [ pc |-> "none", fullId |-> <<>>, after |-> {}, status |-> 0, body |-> "" ]

\* The POST has been answered 201 with the id of its save.
Created(k) == saves[k].pc = "done" /\ saves[k].status = 201

\* POST /: an empty body is answered 400; otherwise save() starts, computes
\* the id from the content and awaits exists(id).
PostShare(k, body) ==
  /\ saves[k].pc = "idle"
  /\ \A j \in 1 .. (k - 1) : saves[j].pc # "idle"
  /\ saves' = [saves EXCEPT ![k] =
       IF body = EmptyBody
         THEN [@ EXCEPT !.pc = "done", !.status = 400]
         ELSE [@ EXCEPT !.pc = "exists", !.content = body,
                        !.id = generateShortId(body)]]
  /\ UNCHANGED <<restOfShare, files, index, lastGet>>

\* exists(id) returns: when the file is there, 4 random characters are
\* appended to the id.  Then the data file is written (awaited).
SaveExists(k) ==
  /\ saves[k].pc = "exists"
  /\ \E r \in RandomIds :
       saves' = [saves EXCEPT ![k] =
         [@ EXCEPT !.pc = "write",
                   !.id = IF exists(@) THEN appendRandom(@, r) ELSE @]]
  /\ UNCHANGED <<restOfShare, files, index, lastGet>>

\* fs.writeFile(dataFile, content) takes effect; updateIndex starts and
\* awaits its read of index.json.
SaveWriteFile(k) ==
  /\ saves[k].pc = "write"
  /\ files' = [files EXCEPT ![saves[k].id] = saves[k].content]
  /\ saves' = [saves EXCEPT ![k] = [@ EXCEPT !.pc = "indexRead"]]
  /\ UNCHANGED <<restOfShare, index, lastGet>>

\* updateIndex: index.json is read and parsed; the rewritten index is
\* handed to fs.writeFile (awaited).
IndexRead(k) ==
  /\ saves[k].pc = "indexRead"
  /\ saves' = [saves EXCEPT ![k] =
       [@ EXCEPT !.pc = "indexWrite",
                 !.indexContent = index \cup {saves[k].id}]]
  /\ UNCHANGED <<restOfShare, files, index, lastGet>>

\* The write of index.json takes effect; save returns the id and the
\* handler answers 201.
IndexWrite(k) ==
  /\ saves[k].pc = "indexWrite"
  /\ index' = saves[k].indexContent
  /\ saves' = [saves EXCEPT ![k] =
       [@ EXCEPT !.pc = "done", !.status = 201, !.indexContent = {}]]
  /\ UNCHANGED <<restOfShare, files, lastGet>>

\* GET /:id arrives: the prefix is stripped and resolve awaits its read.
\* "after" remembers the POSTs that had returned this id by then.
GetShare(fullId) ==
  /\ lastGet.pc # "pending"
  /\ lastGet' = [ pc |-> "pending", fullId |-> fullId,
                  after |-> { k \in Saves :
                                Created(k) /\ fullIdOf(saves[k].id) = fullId },
                  status |-> 0, body |-> "" ]
  /\ UNCHANGED <<restOfShare, files, index, saves>>

\* The read of the data file returns and the GET is answered.
GetRespond ==
  /\ lastGet.pc = "pending"
  /\ LET r == resolve(stripPrefix(lastGet.fullId))
     IN lastGet' = [lastGet EXCEPT !.pc = "done", !.status = r.status,
                                   !.body = r.body]
  /\ UNCHANGED <<restOfShare, files, index, saves>>

\* The store after init(): no data file, an empty index, no request.
InitShareStore ==
  /\ files = [id \in ShareIds |-> NoFile]
  /\ index = {}
  /\ saves = [k \in Saves |-> NewSave]
  /\ lastGet = NoGet

\* The server process holds no tileset.
NoTileset ==
  /\ tileset = <<>> /\ site = <<>> /\ terrain = <<>> /\ scene = <<>>
  /\ listeners = FALSE /\ calls = <<>> /\ writes = <<>> /\ console = FALSE

InitShare ==
  InitShareStore /\ NoTileset /\ NoItem /\ NoSession /\ NoShortener

NextShare ==
  \/ \E k \in Saves, body \in Bodies : PostShare(k, body)
  \/ \E k \in Saves : SaveExists(k)
  \/ \E k \in Saves : SaveWriteFile(k)
  \/ \E k \in Saves : IndexRead(k)
  \/ \E k \in Saves : IndexWrite(k)
  \/ \E id \in ShareIds : GetShare(fullIdOf(id))
  \/ GetRespond

SpecShare == InitShare /\ [][NextShare]_vars

\* ---------------------------------------------------------------------
\* The catalog item of type 3d-tiles-clamped (index.js).

MaxTilesets == 2
MaxAttempts == 2
MaxPending == 1

\* The tileset objects the item can hold; 0 stands for no tileset.
Tilesets == 1 .. MaxTilesets

\* The callbacks the item registers: on a tileset's readyPromise, and the
\* timers of 100 ms (checkAndApply), 1000 ms (retry; checkSceneAndApply
\* when the scene is missing) and 2000 ms (checkSceneAndApply).
ReadyCb(t) == [kind |-> "readyPromise", tileset |-> t]
CheckAndApplyCb == [kind |-> "checkAndApply", tileset |-> 0]
CheckSceneCb == [kind |-> "checkSceneAndApply", tileset |-> 0]
RetryCb == [kind |-> "retry", tileset |-> 0]
Callbacks == { ReadyCb(t) : t \in Tilesets }
               \cup {CheckAndApplyCb, CheckSceneCb, RetryCb}

\* What a call of applyTerrainClamping ends with.
Outcomes == {"true", "false", "rejected"}

\* The constructor.
NewItem ==
  [ tileset |-> 0,
    clampingScheduled |-> FALSE,
    clampingApplied |-> [t \in Tilesets |-> FALSE],
    pending |-> [cb \in Callbacks |-> 0],
    attempts |-> <<>> ]

NumPending(w) ==
  LET RECURSIVE count(_)
      count(S) == IF S = {} THEN 0
                  ELSE LET cb == CHOOSE x \in S : TRUE
                       IN w.pending[cb] + count(S \ {cb})
  IN count(Callbacks)

addCallback(w, cb) == [w EXCEPT !.pending[cb] = @ + 1]
removeCallback(w, cb) == [w EXCEPT !.pending[cb] = @ - 1]

\* applyClampingWhenReady returns true: tileset and scene both exist.
canApply(w) == w.tileset # 0 /\ cesiumScene

\* applyClampingWhenReady, when it returns true: the flag is set on the
\* current tileset and applyTerrainClamping is called on it.
applyClampingWhenReady(w) ==
  [w EXCEPT !.clampingApplied[w.tileset] = TRUE,
            !.attempts = Append(@, [tileset |-> w.tileset,
                                    outcome |-> "running"])]

\* checkSceneAndApply of _waitForSceneAndApply, run once.
checkSceneAndApply(w) ==
  IF cesiumScene
    THEN IF canApply(w) THEN applyClampingWhenReady(w)
         ELSE addCallback(w, RetryCb)
    ELSE addCallback(w, CheckSceneCb)

\* The 1000 ms timer set by checkSceneAndApply.
retry(w) ==
  IF canApply(w) THEN applyClampingWhenReady(w)
  ELSE addCallback(w, CheckSceneCb)

checkAndApply(w) ==
  IF canApply(w) THEN applyClampingWhenReady(w) ELSE checkSceneAndApply(w)

\* Variant: the scheduling flag is not consulted.
alreadyScheduledIgnored(w) == FALSE

\* The guard of _scheduleClamping.
alreadyScheduled(w) == w.clampingScheduled

scheduleClamping(w) ==
  IF alreadyScheduled(w) THEN w
  ELSE LET s == [w EXCEPT !.clampingScheduled = TRUE]
       IN IF canApply(s) THEN applyClampingWhenReady(s)
          ELSE IF s.tileset # 0
            THEN IF readyPromise[s.tileset] # "none"
                   THEN addCallback(s, ReadyCb(s.tileset))
                   ELSE addCallback(s, CheckAndApplyCb)
          ELSE checkSceneAndApply(s)

\* The getter mapItems.
mapItems(w) ==
  IF w.tileset = 0 \/ w.clampingApplied[w.tileset] THEN w
  ELSE scheduleClamping(w)

\* The handlers of the promise applyTerrainClamping returned.  The catch
\* handler writes to this.tileset, the tileset the item holds by then, and
\* throws at that line if there is none.
settled(w, n, outcome) ==
  LET e == [w EXCEPT !.attempts[n].outcome = outcome]
  IN IF outcome # "rejected" \/ e.tileset = 0 THEN e
     ELSE [e EXCEPT !.clampingApplied[e.tileset] = FALSE,
                    !.clampingScheduled = FALSE]

\* The bounds on the history and on the callbacks are not exceeded.
Fits(w) == Len(w.attempts) <= MaxAttempts /\ NumPending(w) <= MaxPending

MapItems ==
  /\ item' = mapItems(item)
  /\ item' # item
  /\ Fits(item')
  /\ UNCHANGED <<restOfItem, cesiumScene, readyPromise>>

ReadyThen(t) ==
  /\ item.pending[ReadyCb(t)] > 0
  /\ readyPromise[t] = "resolved"
  /\ item' = checkAndApply(removeCallback(item, ReadyCb(t)))
  /\ Fits(item')
  /\ UNCHANGED <<restOfItem, cesiumScene, readyPromise>>

ReadyCatch(t) ==
  /\ item.pending[ReadyCb(t)] > 0
  /\ readyPromise[t] = "rejected"
  /\ item' = [removeCallback(item, ReadyCb(t)) EXCEPT
                !.clampingScheduled = FALSE]
  /\ UNCHANGED <<restOfItem, cesiumScene, readyPromise>>

TimerCheckAndApply ==
  /\ item.pending[CheckAndApplyCb] > 0
  /\ item' = checkAndApply(removeCallback(item, CheckAndApplyCb))
  /\ Fits(item')
  /\ UNCHANGED <<restOfItem, cesiumScene, readyPromise>>

TimerCheckScene ==
  /\ item.pending[CheckSceneCb] > 0
  /\ item' = checkSceneAndApply(removeCallback(item, CheckSceneCb))
  /\ Fits(item')
  /\ UNCHANGED <<restOfItem, cesiumScene, readyPromise>>

TimerRetry ==
  /\ item.pending[RetryCb] > 0
  /\ item' = retry(removeCallback(item, RetryCb))
  /\ Fits(item')
  /\ UNCHANGED <<restOfItem, cesiumScene, readyPromise>>

ClampSettles(n, outcome) ==
  /\ n \in 1 .. Len(item.attempts)
  /\ item.attempts[n].outcome = "running"
  /\ item' = settled(item, n, outcome)
  /\ UNCHANGED <<restOfItem, cesiumScene, readyPromise>>

\* The environment: the item's tileset is created, replaced or dropped,
\* the viewer creates or destroys its Cesium scene, a tileset's
\* readyPromise settles.
SetTileset(t) ==
  /\ t # item.tileset
  /\ item' = [item EXCEPT !.tileset = t]
  /\ UNCHANGED <<restOfItem, cesiumScene, readyPromise>>

SceneChanges ==
  /\ cesiumScene' = ~ cesiumScene
  /\ UNCHANGED <<restOfItem, item, readyPromise>>

ReadySettles(t, how) ==
  /\ readyPromise[t] = "pending"
  /\ readyPromise' = [readyPromise EXCEPT ![t] = how]
  /\ UNCHANGED <<restOfItem, item, cesiumScene>>

InitItem ==
  /\ item = NewItem
  /\ cesiumScene \in BOOLEAN
  /\ readyPromise \in [Tilesets -> {"none", "pending"}]
  /\ InitShareStore /\ NoTileset /\ NoSession /\ NoShortener

ItemSteps ==
  \/ MapItems
  \/ \E t \in Tilesets : ReadyThen(t)
  \/ \E t \in Tilesets : ReadyCatch(t)
  \/ TimerCheckAndApply
  \/ TimerCheckScene
  \/ TimerRetry
  \/ \E n \in 1 .. MaxAttempts, outcome \in Outcomes : ClampSettles(n, outcome)

NextItem ==
  \/ ItemSteps
  \/ \E t \in 0 .. MaxTilesets : SetTileset(t)
  \/ SceneChanges
  \/ \E t \in Tilesets, how \in {"resolved", "rejected"} : ReadySettles(t, how)

SpecItem == InitItem /\ [][NextItem]_vars

\* mapItems is re-evaluated while it is observed, a settled promise runs
\* its handlers, an armed timer fires, and a call of applyTerrainClamping
\* ends.
ItemFairness ==
  /\ WF_vars(MapItems)
  /\ \A t \in Tilesets : WF_vars(ReadyThen(t)) /\ WF_vars(ReadyCatch(t))
  /\ WF_vars(TimerCheckAndApply)
  /\ WF_vars(TimerCheckScene)
  /\ WF_vars(TimerRetry)
  /\ \A n \in 1 .. MaxAttempts :
       WF_vars(\E outcome \in Outcomes : ClampSettles(n, outcome))
  /\ \A t \in Tilesets :
       WF_vars(\E how \in {"resolved", "rejected"} : ReadySettles(t, how))

FairSpecItem == SpecItem /\ ItemFairness

\* ---------------------------------------------------------------------
\* The browser session (index.js): authentication check, request
\* interceptors, private catalog loader.

MaxTime == 2
MaxLoads == 2

\* A token: whether jwtDecode accepts it, and the exp claim of its payload.
Tokens ==
  [decodes : {FALSE}, exp : {Undefined}]
    \cup [decodes : {TRUE}, exp : {Undefined} \cup {Def(e) : e \in 0 .. MaxTime}]

\* Cookies.get("access_token"): undefined, or the cookie's value.
NoCookie == Undefined
CookieValues == {NoCookie} \cup {Def(tok) : tok \in Tokens}

\* isUserAuthenticated.  undefined < currentTime is false in JavaScript.
isUserAuthenticated(accessToken, currentTime) ==
  IF accessToken = NoCookie THEN FALSE
  ELSE IF ~ Val(accessToken).decodes THEN FALSE
  ELSE IF /\ IsDefined(Val(accessToken).exp)
          /\ Val(Val(accessToken).exp) < currentTime
    THEN FALSE
  ELSE TRUE

\* URLs, by the substrings the interceptors look for.
Urls ==
  { u \in [api : BOOLEAN, codex : BOOLEAN, accounts : BOOLEAN] :
      u.accounts => u.api }
PrivateCatalogUrl == [api |-> TRUE, codex |-> FALSE, accounts |-> FALSE]

\* Authorization header values; a header is the list of its values.
Bearer(tok) == <<"Bearer", tok>>
CallerHeaders == {<<>>, << <<"Basic", "caller">> >>}

\* Variant: only URLs containing /api/ are intercepted.
interceptedApiOnly(url) == url.api /\ ~ url.accounts

\* The URL test of both interceptors.
intercepted(url) == (url.api \/ url.codex) /\ ~ url.accounts

\* window.fetch: the Authorization header that reaches originalFetch.
fetch(url, headers, accessToken) ==
  IF intercepted(url) /\ accessToken # NoCookie /\ headers = <<>>
    THEN <<Bearer(Val(accessToken))>>
    ELSE headers

\* XMLHttpRequest.prototype.send: getResponseHeader answers null before
\* the request is sent, and setRequestHeader appends to a header the
\* caller has set.
send(url, headers, accessToken) ==
  IF intercepted(url) /\ accessToken # NoCookie
    THEN Append(headers, Bearer(Val(accessToken)))
    ELSE headers

\* window.fetch: the caller's headers object once the call has returned.
\* A plain object is copied before the header is added; a Headers instance
\* is carried into the new options object and set() is called on it.
callerHeadersAfter(url, headers, kind, accessToken) ==
  IF kind = "Headers"
    THEN fetch(url, headers, accessToken)
    ELSE headers

\* A call of window.fetch whose options.headers is a plain object
\* (kind "object") or a Headers instance (kind "Headers").
Fetch(url, headers, kind) ==
  /\ lastRequest' = Def([api |-> "fetch", url |-> url, headers |-> headers,
                         accessToken |-> cookie,
                         authorization |-> fetch(url, headers, cookie),
                         kind |-> kind,
                         callerHeaders |->
                           callerHeadersAfter(url, headers, kind, cookie)])
  /\ UNCHANGED <<restOfAuth, cookie, now, wasAuthenticated, catalog, loads,
                 lastAuth>>

XhrSend(url, headers) ==
  /\ lastRequest' = Def([api |-> "xhr", url |-> url, headers |-> headers,
                         accessToken |-> cookie,
                         authorization |-> send(url, headers, cookie)])
  /\ UNCHANGED <<restOfAuth, cookie, now, wasAuthenticated, catalog, loads,
                 lastAuth>>

\* The request the loader makes, with its own Authorization header.
LoaderFetch ==
  /\ cookie # NoCookie
  /\ Fetch(PrivateCatalogUrl, <<Bearer(Val(cookie))>>, "object")

CheckAuth ==
  /\ lastAuth' = Def([accessToken |-> cookie, currentTime |-> now,
                      result |-> isUserAuthenticated(cookie, now)])
  /\ UNCHANGED <<restOfAuth, cookie, now, wasAuthenticated, catalog, loads,
                 lastRequest>>

\* The environment: login, logout and token refresh; time passes.
SetCookie(c) ==
  /\ c # cookie
  /\ cookie' = c
  /\ UNCHANGED <<restOfAuth, now, wasAuthenticated, catalog, loads,
                 lastAuth, lastRequest>>

Tick ==
  /\ now < MaxTime
  /\ now' = now + 1
  /\ UNCHANGED <<restOfAuth, cookie, wasAuthenticated, catalog, loads,
                 lastAuth, lastRequest>>

InitSession ==
  /\ cookie \in CookieValues
  /\ now = 0
  /\ wasAuthenticated = <<>> /\ catalog = <<>> /\ loads = <<>>
  /\ lastAuth = Undefined
  /\ lastRequest = Undefined
  /\ InitShareStore /\ NoTileset /\ NoItem /\ NoShortener

NextSession ==
  \/ \E url \in Urls, headers \in CallerHeaders,
          kind \in {"object", "Headers"} : Fetch(url, headers, kind)
  \/ \E url \in Urls, headers \in CallerHeaders : XhrSend(url, headers)
  \/ LoaderFetch
  \/ CheckAuth
  \/ \E c \in CookieValues : SetCookie(c)
  \/ Tick

SpecSession == InitSession /\ [][NextSession]_vars

\* The private catalog the server answers with, and the runs of the loader.
PrivateItems == {"p1", "p2"}
PrivateCatalog == <<"p1", "p2">>
CatalogData == {Def(PrivateCatalog), Undefined}
Loads == 1 .. MaxLoads
NewLoad ==
  [pc |-> "idle", by |-> "none", newItems |-> <<>>, rejected |-> FALSE]

\* terria.catalog.group.memberModels, by name.
existingNames == { p \in PrivateItems : catalog[p] > 0 }

RECURSIVE filter(_)
filter(items) ==
  IF items = <<>> THEN <<>>
  ELSE IF Head(items) \in existingNames THEN filter(Tail(items))
  ELSE <<Head(items)>> \o filter(Tail(items))

\* A call of loadPrivateCatalogWithAuth, up to its first await; by names
\* the caller.
StartLoad(r, by) ==
  /\ loads[r].pc = "idle"
  /\ \A q \in Loads : q < r => loads[q].pc # "idle"
  /\ loads' = [loads EXCEPT ![r].by = by,
                            ![r].pc =
                 IF cookie = NoCookie THEN "done" ELSE "fetch"]

\* Variant: the previous answer is not consulted.
justLoggedInOrStill(nowAuthenticated, was) == nowAuthenticated

\* The test of checkAndLoadPrivateCatalog.
justLoggedIn(nowAuthenticated, was) == nowAuthenticated /\ ~ was

\* The startup check, and the next handler of the same chain, which
\* initialises wasAuthenticated.
Startup ==
  /\ wasAuthenticated = Undefined
  /\ wasAuthenticated' = Def(isUserAuthenticated(cookie, now))
  /\ IF isUserAuthenticated(cookie, now)
       THEN \E r \in Loads : StartLoad(r, "startup")
       ELSE UNCHANGED loads
  /\ UNCHANGED <<restOfAuth, cookie, now, catalog, lastAuth, lastRequest>>

\* checkAndLoadPrivateCatalog, every 2 seconds.
PeriodicCheck ==
  /\ wasAuthenticated # Undefined
  /\ wasAuthenticated' = Def(isUserAuthenticated(cookie, now))
  /\ IF justLoggedIn(isUserAuthenticated(cookie, now), Val(wasAuthenticated))
       THEN \E r \in Loads : StartLoad(r, "poll")
       ELSE UNCHANGED loads
  /\ UNCHANGED <<restOfAuth, cookie, now, catalog, lastAuth, lastRequest>>

\* The effect of UserInterface.jsx, run when isAuthenticated turns true.
LoginEffect ==
  /\ \E r \in Loads : StartLoad(r, "effect")
  /\ UNCHANGED <<restOfAuth, cookie, now, wasAuthenticated, catalog,
                 lastAuth, lastRequest>>

\* await fetch(...): a response that is not ok, or no response, rejects
\* the run.
FetchSettles(r, ok) ==
  /\ loads[r].pc = "fetch"
  /\ loads' = [loads EXCEPT ![r] =
       IF ok THEN [@ EXCEPT !.pc = "json"]
       ELSE [@ EXCEPT !.pc = "done", !.rejected = TRUE]]
  /\ UNCHANGED <<restOfAuth, cookie, now, wasAuthenticated, catalog,
                 lastAuth, lastRequest>>

\* await response.json(): the names are read, the items filtered and
\* addMembersFromJson called for the first new item.
JsonSettles(r, data) ==
  /\ loads[r].pc = "json"
  /\ LET newItems == IF data = Undefined THEN <<>> ELSE filter(Val(data))
     IN IF newItems = <<>>
          THEN /\ loads' = [loads EXCEPT ![r].pc = "done"]
               /\ UNCHANGED catalog
          ELSE /\ catalog' = [catalog EXCEPT ![Head(newItems)] = @ + 1]
               /\ loads' = [loads EXCEPT ![r].pc = "adding",
                                         ![r].newItems = Tail(newItems)]
  /\ UNCHANGED <<restOfAuth, cookie, now, wasAuthenticated, lastAuth,
                 lastRequest>>

\* await addMembersFromJson(...): the loop goes on with the next item; a
\* rejection ends the run in the inner catch.
AddSettles(r, ok) ==
  /\ loads[r].pc = "adding"
  /\ IF ok /\ loads[r].newItems # <<>>
       THEN /\ catalog' = [catalog EXCEPT ![Head(loads[r].newItems)] = @ + 1]
            /\ loads' = [loads EXCEPT ![r].newItems = Tail(@)]
       ELSE /\ loads' = [loads EXCEPT ![r].pc = "done", ![r].newItems = <<>>]
            /\ UNCHANGED catalog
  /\ UNCHANGED <<restOfAuth, cookie, now, wasAuthenticated, lastAuth,
                 lastRequest>>

InitLoader ==
  /\ cookie \in CookieValues
  /\ now = 0
  /\ wasAuthenticated = Undefined
  /\ catalog = [p \in PrivateItems |-> 0]
  /\ loads = [r \in Loads |-> NewLoad]
  /\ lastAuth = Undefined
  /\ lastRequest = Undefined
  /\ InitShareStore /\ NoTileset /\ NoItem /\ NoShortener

NextLoader ==
  \/ Startup
  \/ PeriodicCheck
  \/ LoginEffect
  \/ \E r \in Loads, ok \in BOOLEAN : FetchSettles(r, ok)
  \/ \E r \in Loads, data \in CatalogData : JsonSettles(r, data)
  \/ \E r \in Loads, ok \in BOOLEAN : AddSettles(r, ok)
  \/ \E c \in CookieValues : SetCookie(c)
  \/ Tick

SpecLoader == InitLoader /\ [][NextLoader]_vars

\* ---------------------------------------------------------------------
\* The standalone URL shortener (url-shortener.js, class URLShortener).

MaxRequests == 3

LongUrls == {"u1", "u2", "u3"}

\* generateId: the first 6 hex digits of the SHA-256 of the URL; u1 and
\* u2 stand for two URLs whose digests share them.
generateId(url) == IF url \in {"u1", "u2"} THEN "h1" ELSE "h2"

\* generateRandomId(8), and the ids a caller may ask for.
RandomShortIds == {"r1"}
CustomIds == {Undefined, Def("h2"), Def("r1")}
ShortIds == {"h1", "h2"} \cup RandomShortIds

Requests == 1 .. MaxRequests
NewRequest ==
  [pc |-> "idle", op |-> "none", id |-> "none", entry |-> 0,
   url |-> "none", customId |-> Undefined,
   snapshot |-> <<>>, result |-> Undefined]

\* Variant: the loop over the entries finds nothing.
storedUnderNone(longUrl) == {}

\* The id an entry with this URL is stored under, if any.
storedUnder(longUrl) ==
  { id \in ShortIds : IsDefined(urls[id]) /\ Val(urls[id]).url = longUrl }

\* save(), up to its await: the Map is serialised at the call.
saving(r, map) == [r EXCEPT !.pc = "saving", !.snapshot = map]

\* Variant: resolveUrl leaves the counter alone.
clickedNot(data) == data

\* data.clicks++
clicked(data) == [data EXCEPT !.clicks = @ + 1]

\* shortenUrl, up to its await.  The entry object created by request k is
\* identified by k; the request keeps its arguments.
ShortenUrl(k, longUrl, customId) ==
  /\ requests[k].pc = "idle"
  /\ \A j \in Requests : j < k => requests[j].pc # "idle"
  /\ LET first == IF IsDefined(customId) THEN Val(customId)
                  ELSE generateId(longUrl)
         call == [requests[k] EXCEPT !.op = "shorten", !.url = longUrl,
                                     !.customId = customId]
     IN IF storedUnder(longUrl) # {}
          THEN /\ \E id \in storedUnder(longUrl) :
                    requests' = [requests EXCEPT ![k] =
                      [call EXCEPT !.pc = "done",
                                   !.id = id, !.result = Def(id)]]
               /\ UNCHANGED <<urls, returned>>
        ELSE IF IsDefined(urls[first]) /\ IsDefined(customId)
          THEN /\ requests' = [requests EXCEPT ![k] =
                    [call EXCEPT !.pc = "done",
                                 !.result = Def("Custom ID already in use")]]
               /\ UNCHANGED <<urls, returned>>
        ELSE \E id \in IF IsDefined(urls[first]) THEN RandomShortIds
                       ELSE {first} :
               /\ urls' = [urls EXCEPT ![id] =
                    Def([url |-> longUrl, clicks |-> 0, entry |-> k])]
               /\ returned' = [returned EXCEPT ![id] = 0]
               /\ requests' = [requests EXCEPT ![k] =
                    saving([call EXCEPT !.id = id,
                                        !.result = Def(id)], urls')]
  /\ UNCHANGED <<restOfShort, dbFile>>

\* resolveUrl, up to its await.
ResolveUrl(k, id) ==
  /\ requests[k].pc = "idle"
  /\ \A j \in Requests : j < k => requests[j].pc # "idle"
  /\ IF urls[id] = Undefined
       THEN /\ requests' = [requests EXCEPT ![k] =
                 [@ EXCEPT !.pc = "done", !.op = "resolve", !.id = id,
                           !.result = Def("null")]]
            /\ UNCHANGED urls
       ELSE /\ urls' = [urls EXCEPT ![id] = Def(clicked(Val(@)))]
            /\ requests' = [requests EXCEPT ![k] =
                 saving([@ EXCEPT !.op = "resolve", !.id = id,
                                  !.entry = Val(urls[id]).entry,
                                  !.result = Def(Val(urls[id]).url)], urls')]
  /\ UNCHANGED <<restOfShort, dbFile, returned>>

\* deleteUrl, up to its await.
DeleteUrl(k, id) ==
  /\ requests[k].pc = "idle"
  /\ \A j \in Requests : j < k => requests[j].pc # "idle"
  /\ IF urls[id] = Undefined
       THEN /\ requests' = [requests EXCEPT ![k] =
                 [@ EXCEPT !.pc = "done", !.op = "delete", !.id = id,
                           !.result = Def("false")]]
            /\ UNCHANGED urls
       ELSE /\ urls' = [urls EXCEPT ![id] = Undefined]
            /\ requests' = [requests EXCEPT ![k] =
                 saving([@ EXCEPT !.op = "delete", !.id = id,
                                  !.result = Def("true")], urls')]
  /\ UNCHANGED <<restOfShort, dbFile, returned>>

\* fs.writeFile settles: a failure is logged and swallowed; the call that
\* awaited save() returns.
SaveSettles(k, ok) ==
  /\ requests[k].pc = "saving"
  /\ dbFile' = IF ok THEN requests[k].snapshot ELSE dbFile
  /\ requests' = [requests EXCEPT ![k].pc = "done", ![k].snapshot = <<>>]
  /\ returned' =
       IF /\ requests[k].op = "resolve"
          /\ IsDefined(urls[requests[k].id])
          /\ Val(urls[requests[k].id]).entry = requests[k].entry
         THEN [returned EXCEPT ![requests[k].id] = @ + 1]
         ELSE returned
  /\ UNCHANGED <<restOfShort, urls>>

\* init() on an empty storage directory.
InitShortener ==
  /\ urls = [id \in ShortIds |-> Undefined]
  /\ dbFile = [id \in ShortIds |-> Undefined]
  /\ requests = [k \in Requests |-> NewRequest]
  /\ returned = [id \in ShortIds |-> 0]
  /\ InitShareStore /\ NoTileset /\ NoItem /\ NoSession

NextShortener ==
  \/ \E k \in Requests, longUrl \in LongUrls, customId \in CustomIds :
       ShortenUrl(k, longUrl, customId)
  \/ \E k \in Requests, id \in ShortIds : ResolveUrl(k, id)
  \/ \E k \in Requests, id \in ShortIds : DeleteUrl(k, id)
  \/ \E k \in Requests, ok \in BOOLEAN : SaveSettles(k, ok)

SpecShortener == InitShortener /\ [][NextShortener]_vars

\* ----------------------------------------------------------- specification

Shapes ==
  { s \in [ root : BOOLEAN, boundingVolume : {"obb", "sphere", "none"},
            boundingSphere : BOOLEAN, readySignal : {"promise", "event", "none"},
            loadState : {"pending", "loaded"},
            selectedTiles : {MinSamplePoints - 1, MaxSelectedTiles},
            modelMatrix : {Undefined, IDENTITY} ] :
      /\ s.modelMatrix = Undefined <=> ~ s.root
      /\ ~ s.root => s.boundingVolume = "none"
      /\ s.boundingVolume # "obb" => s.selectedTiles = MinSamplePoints - 1
      /\ s.loadState = "loaded" => s.readySignal = "promise" }

InitClamp ==
  /\ site \in Sites
  /\ \E s \in Shapes :
       tileset = [ root |-> s.root, boundingVolume |-> s.boundingVolume,
                   boundingSphere |-> s.boundingSphere,
                   readySignal |-> s.readySignal, loadState |-> s.loadState,
                   selectedTiles |-> s.selectedTiles,
                   modelMatrix |-> s.modelMatrix,
                   rootTransform |-> IF s.root THEN IDENTITY ELSE Undefined,
                   computedZ |-> 0 ]
  /\ terrain \in TerrainStates
  /\ tileset.boundingVolume # "obb" => terrain[1] = terrain[CenterPos]
  /\ listeners = FALSE
  /\ calls = [i \in Inv |-> NewCall]
  /\ writes = <<>>
  /\ InitShareStore
  /\ NoItem
  /\ NoSession
  /\ NoShortener

Init ==
  /\ InitClamp
  /\ scene = CesiumScene
  /\ console = FALSE

\* The same, in a browser with a console: the diagnostics are observed.
InitConsole ==
  /\ InitClamp
  /\ scene = CesiumScene
  /\ console = TRUE

\* Any scene object, whatever it offers.
InitScene ==
  /\ InitClamp
  /\ scene \in Scenes
  /\ console = FALSE

Steps ==
  \/ \E i \in Inv : WaitResolved(i)
  \/ \E i \in Inv : WaitTimeout(i)
  \/ \E i \in Inv : CornerResumed(i)
  \/ \E i \in Inv : FallbackResumed(i)
  \/ TilesetLoaded
  \/ TilesetLoadFailed
  \/ UpdateTransform
  \/ TerrainTilesLoaded

\* One caller that awaits each clamp; no listeners are registered.
NextSeq ==
  \/ Steps
  \/ \E i \in Inv : ClampAwaited(i)

SpecSeq == Init /\ [][NextSeq]_vars

SpecScene == InitScene /\ [][NextSeq]_vars

SpecConsole == InitConsole /\ [][NextSeq]_vars

\* Resumptions are scheduled: a settled promise runs its continuation and
\* an armed timer fires.  Nothing makes the tileset finish its load.
Resumptions ==
  \A i \in Inv :
    /\ WF_vars(WaitResolved(i))
    /\ WF_vars(WaitTimeout(i))
    /\ WF_vars(CornerResumed(i))
    /\ WF_vars(FallbackResumed(i))

FairSpecSeq == SpecSeq /\ Resumptions

\* The same caller, and the listeners of _setupHeightUpdates, which start
\* an invocation at each event whatever else is in flight.
Next ==
  \/ Steps
  \/ \E i \in Inv : ClampAwaited(i)
  \/ SetupHeightUpdates
  \/ \E i \in Inv : TileLoad(i)
  \/ \E i \in Inv : TerrainProviderChanged(i)

Spec == Init /\ [][Next]_vars

\* ------------------------------------------------------------------ claims
Done(c) == c.pc = "done"
WriteOffsets == [k \in 1 .. Len(writes) |-> writes[k].offset]

\* C1: in the precise tier, when the terrain query of any corner returned
\* undefined, calculateBestFitPlane reports failure, the invocation goes on
\* to the fallback tier, and that step applies nothing to the transform.
C1_AbsentCornerDescends ==
  [][\A i \in Inv :
       LET c == calls[i]
           heights == Append(c.terrainHeights, c.pending)
       IN (/\ c.pc = "corner"
           /\ Len(heights) = NumCorners
           /\ \E k \in 1 .. NumCorners : heights[k] = Undefined
           /\ calls'[i] # c)
          => /\ ~ calculateBestFitPlane(c.corners, heights).success
             /\ calls'[i].tiers # c.tiers
             /\ Last(calls'[i].tiers) = "fallback"
             /\ tileset' = tileset
             /\ writes' = writes]_vars

\* An invocation is in the fallback tier after one of its 4 corner samples
\* was undefined and the other three were heights.
C1_Witness ==
  \E i \in Inv :
    /\ calls[i].pc = "fallback"
    /\ calls[i].tiers = <<"precise", "fallback">>
    /\ Len(calls[i].terrainHeights) = NumCorners
    /\ Cardinality({ k \in 1 .. NumCorners :
                       calls[i].terrainHeights[k] = Undefined }) = 1

\* C2: the offset applied by the precise tier is the mean over the 4
\* corners of (terrain height - corner height) plus heightOffset; stated
\* times NumCorners: 4 * offset = sum(t[i] - m[i]) + 4 * heightOffset.
C2_PreciseOffset ==
  \A i \in Inv :
    (calls[i].result = "true" /\ Last(calls[i].tiers) = "precise")
      => /\ Len(calls[i].corners) = NumCorners
         /\ Len(calls[i].terrainHeights) = NumCorners
         /\ NumCorners * Val(calls[i].applied)
              = SumSeq([k \in 1 .. NumCorners |->
                          Val(calls[i].terrainHeights[k]) - calls[i].corners[k]])
                + NumCorners * site.heightOffset

\* The example of the claim: corners at 100 m, terrain at 80 m, heightOffset
\* 10 m, applied offset -10 m.
C2_Witness ==
  \E i \in Inv :
    /\ calls[i].result = "true"
    /\ Last(calls[i].tiers) = "precise"
    /\ calls[i].corners = [k \in 1 .. NumCorners |-> Metres(100)]
    /\ calls[i].terrainHeights = [k \in 1 .. NumCorners |-> Def(Metres(80))]
    /\ site.heightOffset = Metres(10)
    /\ calls[i].applied = Def(Metres(0 - 10))

\* C3: when the fallback tier's terrain sample is undefined (every tier is
\* exhausted), the invocation returns false and tileset.modelMatrix and
\* tileset.root.transform are what they were when it was called.
C3_FailedLeavesTransform ==
  [][\A i \in Inv :
       LET c == calls[i]
       IN (c.pc = "fallback" /\ c.pending = Undefined /\ calls'[i] # c)
          => /\ calls'[i].pc = "done"
             /\ calls'[i].result = "false"
             /\ <<tileset'.modelMatrix, tileset'.rootTransform>> = c.before]_vars

\* An invocation has ended in Failed after the precise tier and the
\* fallback tier.
C3_Witness ==
  \E i \in Inv :
    /\ Done(calls[i])
    /\ calls[i].result = "false"
    /\ calls[i].tiers = <<"precise", "fallback">>

\* C4 (as claimed): no invocation of applyTerrainClamping rejects.
C4_NeverRejects ==
  \A i \in Inv : calls[i].result # "rejected"

\* C5 (as claimed): the fallback tier is attempted only after an
\* approximate tier (root-tile sphere) has been attempted and has failed.
C5_ApproximateBeforeFallback ==
  \A i \in Inv :
    \A k \in 1 .. Len(calls[i].tiers) :
      calls[i].tiers[k] = "fallback"
        => \E j \in 1 .. (k - 1) : calls[i].tiers[j] = "approximate"

\* C6: on a tileset with neither a root oriented box nor a root sphere, but
\* with its whole-tileset sphere, an invocation that is past the load wait
\* is in the fallback tier only; it returns true exactly when the sample at
\* the sphere centre is a height and false exactly when it is undefined.
C6_SphereOnlyTileset ==
  \A i \in Inv :
    (/\ tileset.boundingVolume = "none"
     /\ tileset.boundingSphere
     /\ tileset.readySignal # "none"
     /\ calls[i].pc \notin {"idle", "wait"})
      => /\ calls[i].tiers = <<"fallback">>
         /\ Done(calls[i])
              => /\ calls[i].result = "true" <=> IsDefined(calls[i].centerSample)
                 /\ calls[i].result = "false" <=> calls[i].centerSample = Undefined

\* A tileset without root has been clamped through the fallback tier.
C6_Witness ==
  \E i \in Inv :
    /\ ~ tileset.root
    /\ tileset.boundingVolume = "none"
    /\ tileset.boundingSphere
    /\ calls[i].tiers = <<"fallback">>
    /\ calls[i].result = "true"
    /\ IsDefined(calls[i].centerSample)

\* C7 (as claimed): when tileset.root.transform is defined, every clamp
\* writes its offset into root.transform, never into modelMatrix.
C7_WritesRootTransform ==
  \A k \in 1 .. Len(writes) :
    IsDefined(tileset.rootTransform) => writes[k].field = "rootTransform"

\* C8 (as claimed): at most one invocation is in flight on the tileset.
C8_OneInFlight == NumInFlight <= 1

C10_NoLostTranslation ==
  translationOf(tileset.modelMatrix) = SumSeq(WriteOffsets)

\* Two invocations were in flight together and both wrote a non-zero
\* translation, the later-started one first.
C10_Witness ==
  /\ Len(writes) = 2
  /\ writes[1].call = 2 /\ writes[2].call = 1
  /\ writes[1].offset # 0 /\ writes[2].offset # 0

\* C11 (as claimed): the wait for the initial load always ends, whether or
\* not the readiness signal ever fires.
C11_WaitEnds ==
  \A i \in Inv : (calls[i].pc = "wait") ~> (calls[i].pc # "wait")

\* The height of the terrain under sample position k.
SampleHeight(k) == IF k = CenterPos THEN site.terrainCenter ELSE site.terrain[k]

\* C12: every step of an invocation that issues a terrain query gets from
\* getTerrainHeightAtPosition the terrain height or undefined, never an
\* exception; it is undefined when the query throws and when the scene has
\* neither globe.getHeight nor clampToHeight.
C12_QueryNeverThrows ==
  [][\A i \in Inv :
       LET c == calls[i]
           d == calls'[i]
           k == IF d.pc = "fallback" THEN CenterPos
                ELSE Len(d.terrainHeights) + 1
           issued ==
             \/ d.pc = "fallback" /\ c.pc # "fallback"
             \/ /\ d.pc = "corner"
                /\ c.pc # "corner" \/ Len(d.terrainHeights) # Len(c.terrainHeights)
       IN issued
            => /\ d.pending \in {Undefined, Def(SampleHeight(k))}
               /\ d.result # "rejected"
               /\ (terrain[k] = "throws"
                     \/ (~ scene.getHeight /\ ~ scene.clampToHeight))
                    => d.pending = Undefined]_vars

\* On a scene that has clampToHeight only, the query at the second corner
\* threw and its sample was collected as undefined.
C12_Witness ==
  \E i \in Inv :
    /\ ~ scene.getHeight /\ scene.clampToHeight
    /\ terrain[2] = "throws"
    /\ calls[i].pc = "corner"
    /\ Len(calls[i].terrainHeights) >= 2
    /\ IsDefined(calls[i].terrainHeights[1])
    /\ calls[i].terrainHeights[2] = Undefined

\* C13: in the precise tier an invocation goes on from the corner queries
\* (to the plane fit) only when all 4 results are collected, and until then
\* every result, a height or undefined, is collected and followed by the
\* query of the next corner.
C13_AllCornersCollected ==
  [][\A i \in Inv :
       LET c == calls[i]
           d == calls'[i]
           heights == Append(c.terrainHeights, c.pending)
       IN (c.pc = "corner" /\ d # c)
            => /\ d.pc # "corner" => Len(heights) = NumCorners
               /\ Len(heights) < NumCorners
                    => /\ d.pc = "corner"
                       /\ d.terrainHeights = heights]_vars

\* The third corner's sample was undefined and the fourth corner was
\* queried all the same.
C13_Witness ==
  \E i \in Inv :
    /\ Len(calls[i].terrainHeights) = NumCorners
    /\ calls[i].terrainHeights[3] = Undefined
    /\ IsDefined(calls[i].terrainHeights[4])

\* C14: a write with offset d sets tileset.modelMatrix to the previous
\* value (identity when it was undefined) composed with the translation by
\* d, so that it holds the sum of every offset written so far.
C14_ComposesOntoPrevious ==
  [][writes' # writes
       => LET d == Last(writes').offset
          IN /\ Len(writes') = Len(writes) + 1
             /\ tileset'.modelMatrix
                  = Def(translationOf(tileset.modelMatrix) + d)
             /\ Val(tileset'.modelMatrix)
                  = SumSeq([k \in 1 .. Len(writes') |-> writes'[k].offset])]_vars

\* A tileset whose modelMatrix started undefined was clamped twice with a
\* non-zero offset each time.
C14_Witness ==
  /\ ~ tileset.root
  /\ Len(writes) = 2
  /\ writes[1].offset # 0 /\ writes[2].offset # 0
  /\ tileset.modelMatrix = Def(writes[1].offset + writes[2].offset)

\* C15 (as claimed): the corners sampled in the precise tier are the lower
\* corners of the root tile's own oriented box, however many tiles are
\* selected.
C15_RootBoxCorners ==
  \A i \in Inv :
    calls[i].pc = "corner"
      => calls[i].corners
           = [k \in 1 .. NumCorners |-> site.rootBox[k] + calls[i].readZ]

\* Two corners of a box are joined by an edge of its bottom face.
BottomEdge(a, b) ==
  /\ a.z = -1 /\ b.z = -1
  /\ (a.x # b.x) # (a.y # b.y)

\* C16 (as claimed): the footprint is the four corners on the negative Z
\* side, listed so that consecutive corners, and the last and the first,
\* are joined by an edge of the bottom face.
C16_PerimeterOrder ==
  \A i \in Inv :
    LET f == calls[i].cornerSigns
    IN f # <<>>
         => /\ Len(f) = NumCorners
            /\ \A k \in 1 .. NumCorners :
                 /\ f[k].z = -1
                 /\ BottomEdge(f[k], f[(k % NumCorners) + 1])

\* C17 (as claimed): the fallback tier moves the base of the bounding
\* sphere, centre height - radius, to terrain height + heightOffset.
C17_FallbackPlacesBase ==
  \A i \in Inv :
    (calls[i].result = "true" /\ Last(calls[i].tiers) = "fallback")
      => Val(calls[i].applied)
           = (Val(calls[i].centerSample) + site.heightOffset)
               - ((site.center + calls[i].readZ) - site.radius)

\* C18 (as claimed): a GET of an id that a POST had returned for content c
\* is answered 200 with exactly c, whatever was saved in between.
C18_ShareRoundTrip ==
  [][(lastGet.pc = "pending" /\ lastGet'.pc = "done")
       => \A k \in lastGet.after :
            /\ lastGet'.status = 200
            /\ lastGet'.body = saves[k].content]_vars

\* C19 (as claimed): two saves of the same content return the same id and
\* leave one stored share with that content.
C19_SameContentSameId ==
  \A j, k \in Saves :
    (Created(j) /\ Created(k) /\ saves[j].content = saves[k].content)
      => /\ saves[j].id = saves[k].id
         /\ Cardinality({ id \in ShareIds : files[id] = saves[k].content }) = 1

\* C20 (as claimed): the file of an id that save returned for content c
\* holds c ever after.
C20_NeverOverwritten ==
  \A k \in Saves : Created(k) => files[saves[k].id] = saves[k].content

\* C21 (as claimed): once no save is in progress, index.json has an entry
\* for every id that save returned, and as many entries as ids issued.
C21_IndexTracksEveryShare ==
  (\A k \in Saves : saves[k].pc \in {"idle", "done"})
    => LET issued == { saves[k].id : k \in { j \in Saves : Created(j) } }
       IN /\ issued \subseteq index
          /\ Cardinality(index) = Cardinality(issued)

\* C26 (as claimed): a query reports undefined only after every strategy
\* the scene offers, globe.getHeight and then clampToHeight, was attempted.
C26_FallsBackToClampToHeight ==
  \A i \in Inv :
    (InFlight(calls[i]) /\ calls[i].pc # "wait" /\ calls[i].pending = Undefined)
      => /\ scene.getHeight
           => \E n \in 1 .. Len(calls[i].strategies) :
                calls[i].strategies[n] = "getHeight"
         /\ scene.clampToHeight
           => \E n \in 1 .. Len(calls[i].strategies) :
                calls[i].strategies[n] = "clampToHeight"

\* The diagnostics of the load wait (lines 63 and 76).
WaitDiags == {"Tileset failed to load", "Timeout waiting for tiles"}
Warned(c) == \E n \in 1 .. Len(c.diags) : c.diags[n].msg \notin WaitDiags

invocations(t) ==
  { n \in 1 .. Len(item.attempts) : item.attempts[n].tileset = t }
rejections(t) ==
  { n \in invocations(t) : item.attempts[n].outcome = "rejected" }
clamped(t) ==
  \E n \in invocations(t) : item.attempts[n].outcome = "true"

\* C28 (as claimed): a tileset the item holds while the scene exists is
\* eventually passed to applyTerrainClamping, unless the item stops
\* holding it or the scene goes away first.
C28_EveryTilesetClamped ==
  \A t \in Tilesets :
    (item.tileset = t /\ cesiumScene /\ Len(item.attempts) < MaxAttempts)
      ~> \/ invocations(t) # {}
         \/ item.tileset # t
         \/ ~ cesiumScene
         \/ Len(item.attempts) = MaxAttempts

\* C29: applyTerrainClamping is called on a tileset at most once more
\* than calls on that tileset have rejected.
C29_OnceUnlessRejected ==
  \A t \in Tilesets :
    Cardinality(invocations(t)) <= Cardinality(rejections(t)) + 1

\* A call on a tileset rejected and a second call was made on that
\* tileset; the item is scheduled and no callback is pending.
C29_Witness ==
  \E t \in Tilesets :
    /\ Cardinality(invocations(t)) = 2
    /\ Cardinality(rejections(t)) = 1
    /\ item.clampingScheduled
    /\ NumPending(item) = 0

\* C30 (as claimed): once no clamp attempt is running, a tileset carries
\* _clampingApplied only if a transform was applied to it, and if the
\* held tileset was not clamped the item is free to schedule again.
C30_FlagsResetOnFailure ==
  (\A n \in 1 .. Len(item.attempts) : item.attempts[n].outcome # "running")
    => /\ \A t \in Tilesets : item.clampingApplied[t] => clamped(t)
       /\ (item.tileset # 0 /\ ~ clamped(item.tileset)
             /\ NumPending(item) = 0)
            => ~ item.clampingScheduled

\* C22 (as claimed): no private catalog item is added more than once.
C22_AddedAtMostOnce ==
  catalog # <<>> => \A p \in PrivateItems : catalog[p] <= 1

C24_TrueOnlyForUnexpiredToken ==
  lastAuth # Undefined
    => LET a == Val(lastAuth)
       IN a.result
            <=> /\ a.accessToken # NoCookie
                /\ Val(a.accessToken).decodes
                /\ IsDefined(Val(a.accessToken).exp)
                /\ Val(Val(a.accessToken).exp) >= a.currentTime

\* The resolveUrl calls that found the entry now stored under id and are
\* awaiting save() before they return its URL.
resolving(id) ==
  { k \in Requests :
      /\ requests[k].pc = "saving" /\ requests[k].op = "resolve"
      /\ requests[k].id = id
      /\ requests[k].entry = Val(urls[id]).entry }

\* C25: the clicks of a stored id count the resolveUrl calls since its
\* creation that return its URL, those that have returned and those that
\* found the entry and return once their save settles; and a resolveUrl
\* of an unknown id answers null and changes no entry.
C25_ClicksCountResolves ==
  /\ [](\A id \in ShortIds :
          IsDefined(urls[id])
            => Val(urls[id]).clicks
                 = returned[id] + Cardinality(resolving(id)))
  /\ [][\A k \in Requests :
          (/\ requests[k].pc = "idle"
           /\ requests'[k].op = "resolve"
           /\ urls[requests'[k].id] = Undefined)
            => /\ requests'[k].pc = "done"
               /\ requests'[k].result = Def("null")
               /\ urls' = urls /\ dbFile' = dbFile]_vars

\* An id was resolved twice, both calls have returned and its clicks are 2.
C25_Witness ==
  \E id \in ShortIds :
    /\ IsDefined(urls[id])
    /\ Val(urls[id]).clicks = 2
    /\ returned[id] = 2
    /\ resolving(id) = {}

\* The writes of the transform made by invocation i.
writesOf(i) == { k \in 1 .. Len(writes) : writes[k].call = i }

\* C31: an invocation writes the placement transform at most once, and its
\* result is true exactly when it has written once; an invocation that is
\* still running, resolved false or rejected has written nothing.
C31_OneWriteIffTrue ==
  \A i \in Inv :
    /\ Cardinality(writesOf(i)) <= 1
    /\ calls[i].result = "true" <=> Cardinality(writesOf(i)) = 1

\* The precise tier failed, the fallback tier succeeded, and the
\* invocation wrote once.
C31_Witness ==
  \E i \in Inv :
    /\ calls[i].tiers = <<"precise", "fallback">>
    /\ calls[i].result = "true"
    /\ Cardinality(writesOf(i)) = 1

\* The runs of the loader started in a step, and those among them that the
\* periodic check started.
startedLoads == { r \in Loads : loads[r].pc = "idle" /\ loads'[r].pc # "idle" }
startedByPoll == { r \in startedLoads : loads'[r].by = "poll" }

\* C32: the periodic check starts the loader only in a poll that finds
\* isUserAuthenticated() true after the previous poll found it false, and
\* such a poll starts it exactly once.
C32_LoadOnLoginOnly ==
  [][/\ startedByPoll # {}
        => wasAuthenticated = Def(FALSE) /\ wasAuthenticated' = Def(TRUE)
     /\ (wasAuthenticated = Def(FALSE) /\ wasAuthenticated' = Def(TRUE))
        => startedLoads = startedByPoll /\ Cardinality(startedByPoll) = 1]_vars

\* A poll has started the loader, that run is over, the user is still
\* authenticated and a later run has not been started.
C32_Witness ==
  /\ wasAuthenticated = Def(TRUE)
  /\ \E r \in Loads : loads[r].by = "poll" /\ loads[r].pc = "done"
  /\ \E r \in Loads : loads[r].pc = "idle"

\* C33 (as claimed): window.fetch leaves the caller's headers, plain object
\* or Headers instance, as they were, never replaces an Authorization header
\* the caller set, and passes the request through as it is when the URL
\* does not match or there is no access_token cookie.
C33_CallerHeadersUntouched ==
  (lastRequest # Undefined /\ Val(lastRequest).api = "fetch")
    => LET q == Val(lastRequest)
       IN /\ q.callerHeaders = q.headers
          /\ q.headers # <<>> => q.authorization = q.headers
          /\ (~ intercepted(q.url) \/ q.accessToken = NoCookie)
               => q.authorization = q.headers

\* The calls of shortenUrl that a step begins.
shortening == { k \in Requests : requests[k].pc = "idle"
                                 /\ requests'[k].op = "shorten" }

\* C34: no two stored ids map to the same URL, and shortenUrl(u) for a
\* stored u returns the id u is stored under and leaves every entry, and
\* the file, as they were.
C34_OneIdPerUrl ==
  /\ [](\A a, b \in ShortIds :
          (/\ urls[a] # Undefined /\ urls[b] # Undefined
           /\ Val(urls[a]).url = Val(urls[b]).url) => a = b)
  /\ [][\A k \in shortening : \A id \in ShortIds :
          (urls[id] # Undefined /\ Val(urls[id]).url = requests'[k].url)
            => /\ requests'[k].pc = "done"
               /\ requests'[k].result = Def(id)
               /\ urls' = urls /\ dbFile' = dbFile]_vars

\* A call of shortenUrl has returned the id of an entry that an earlier
\* call created for the same URL, although it asked for another id.
C34_Witness ==
  \E k \in Requests :
    /\ requests[k].pc = "done" /\ requests[k].op = "shorten"
    /\ requests[k].id \in ShortIds
    /\ requests[k].customId # Undefined
    /\ requests[k].customId # Def(requests[k].id)
    /\ urls[requests[k].id] # Undefined
    /\ Val(urls[requests[k].id]).url = requests[k].url
    /\ Val(urls[requests[k].id]).entry < k

\* C35 (as claimed): shortenUrl(u, customId) with a customId mapped to
\* another URL ends with "Custom ID already in use" and leaves the Map and
\* the file as they were, and no call of shortenUrl replaces the URL of an
\* id that is stored.
C35_CustomIdTakenFailsAndNoUrlReplaced ==
  [][\A k \in shortening :
       /\ (/\ requests'[k].customId # Undefined
           /\ urls[Val(requests'[k].customId)] # Undefined
           /\ Val(urls[Val(requests'[k].customId)]).url # requests'[k].url)
            => /\ requests'[k].result = Def("Custom ID already in use")
               /\ urls' = urls /\ dbFile' = dbFile
       /\ \A id \in ShortIds :
            (urls[id] # Undefined /\ urls'[id] # Undefined)
              => Val(urls'[id]).url = Val(urls[id]).url]_vars

====
